---------------------------- MODULE Spec2Model ----------------------------
(***************************************************************************)
(* Model of scripts/verify_ed25519ph/src/main.rs: the attestation parser   *)
(* (parse_audit_output, parse_key_line), the key registry (resolve_pubkey, *)
(* identify_key, tag_to_key_name), the verification engine (verify_single) *)
(* and the driver (main).                                                   *)
(*                                                                         *)
(* Text is a sequence of tokens.  A token stands for a fixed, non-empty    *)
(* run of characters ("boot0.sig:", "key ", "(", one decimal digit, a      *)
(* block of 128 hex digits, ...), chosen so that no concatenation of       *)
(* tokens spells another token: prefix tests, searches and comparisons on  *)
(* token sequences agree with the same operations on the characters.       *)
(* An Option<T> is a sequence of length 0 (None) or 1 (Some).              *)
(***************************************************************************)
EXTENDS Integers, Sequences, FiniteSets, TLC

VARIABLES
    args,       \* Args: pubkey, hash, sig, aad (options), name
    stdin,      \* the bytes waiting on standard input (batch mode)
    input,      \* main's `input`; the text handed to parse_audit_output
    parsed,     \* outcome of parse_audit_output(input)
    parsed2,    \* outcome of parse_audit_output(input ++ input)
    todo,       \* stages_to_verify not yet visited by the for loop
    results,    \* main's `results`: <<stage, passed>> pairs
    calls,      \* history: every verify_single invocation with its outcome
    skipped,    \* history: stages the loop left with `continue`, with the reason
    out,        \* lines written to stdout / stderr
    exit,       \* process exit status, -1 while running
    pc          \* position in main

vars == <<args, stdin, input, parsed, parsed2, todo, results, calls, skipped, out, exit, pc>>

----------------------------------------------------------------------------
(* Options                                                                 *)

None == <<>>

Some(x) == <<x>>

IsSome(o) == Len(o) = 1

----------------------------------------------------------------------------
(* Characters and strings                                                  *)

NL == "\n"

\* char::is_whitespace for the tokens of the model (a line never holds NL)
IsSpace(t) == t \in {" ", NL}

DigitToks == {"0", "1", "2", "3", "4", "5", "6", "7", "9"}

\* char::is_ascii_digit
is_ascii_digit(t) == t \in DigitToks

DigitVal(t) ==
    CASE t = "0" -> 0 [] t = "1" -> 1 [] t = "2" -> 2 [] t = "3" -> 3
      [] t = "4" -> 4 [] t = "5" -> 5 [] t = "6" -> 6 [] t = "7" -> 7
      [] t = "9" -> 9

\* u8::to_ascii_lowercase over a token: the tokens with upper-case letters
\* that reach a case-insensitive comparison or the hex decoder
Lower(t) ==
    CASE t = "DEV" -> "dev"
      [] t = "DEVELOPER" -> "developer"
      [] t = "BETA" -> "beta"
      [] t = "D1" -> "d1"
      [] OTHER -> t

SubSeqFrom(s, i) == SubSeq(s, i, Len(s))

\* str::trim
RECURSIVE TrimStart(_)
TrimStart(s) ==
    IF s # <<>> /\ IsSpace(Head(s)) THEN TrimStart(Tail(s)) ELSE s

RECURSIVE TrimEnd(_)
TrimEnd(s) ==
    IF s # <<>> /\ IsSpace(s[Len(s)]) THEN TrimEnd(SubSeq(s, 1, Len(s) - 1)) ELSE s

trim(s) == TrimEnd(TrimStart(s))

\* the least index of a set of indices, 0 when there is none (a search that
\* returns None)
FirstOf(idx) ==
    IF idx = {} THEN 0 ELSE CHOOSE i \in idx : \A j \in idx : i <= j

\* str::find(pattern): index of the first token that is one of toks
find(s, toks) == FirstOf({i \in 1..Len(s) : s[i] \in toks})

\* str::find(|c| !pred(c)): index of the first token that is none of toks
find_not(s, toks) == FirstOf({i \in 1..Len(s) : s[i] \notin toks})

\* str::lines: split at line feeds; a final empty line is not produced
RECURSIVE lines(_)
lines(text) ==
    IF text = <<>> THEN <<>>
    ELSE LET k == find(text, {NL})
         IN  IF k = 0 THEN <<text>>
             ELSE <<SubSeq(text, 1, k - 1)>> \o lines(SubSeqFrom(text, k + 1))

\* [String]::join("\n")
RECURSIVE join(_)
join(ls) ==
    IF ls = <<>> THEN <<>>
    ELSE IF Len(ls) = 1 THEN ls[1]
    ELSE ls[1] \o <<NL>> \o join(Tail(ls))

----------------------------------------------------------------------------
(* u32 values are pairs <<hi, lo>> of decimal limbs: value = hi*Limb + lo   *)

Limb == 100000

U32MaxHi == 42949

U32MaxLo == 67295

\* a literal below Limb, as a u32
U32(n) == <<0, n>>

\* str::parse::<u32> on a run of digit tokens: None on the empty string and
\* on overflow
RECURSIVE ParseDigits(_, _)
ParseDigits(ds, acc) ==
    IF ds = <<>> THEN Some(acc)
    ELSE LET lo10 == acc[2] * 10 + DigitVal(Head(ds))
             hi   == acc[1] * 10 + (lo10 \div Limb)
             lo   == lo10 % Limb
         IN  IF hi > U32MaxHi \/ (hi = U32MaxHi /\ lo > U32MaxLo)
             THEN None
             ELSE ParseDigits(Tail(ds), <<hi, lo>>)

parse_u32(s) ==
    IF s = <<>> \/ \E i \in 1..Len(s) : ~is_ascii_digit(s[i])
    THEN None
    ELSE ParseDigits(s, <<0, 0>>)

----------------------------------------------------------------------------
(* Attestation parser                                                      *)

StageNames == <<"boot0", "boot1", "loader">>

StageSet == {StageNames[i] : i \in 1..Len(StageNames)}

\* format!("{}.sig:", stage) and its siblings
FieldPrefix(stage, field) ==
    CASE stage = "boot0" /\ field = "sig" -> "boot0.sig:"
      [] stage = "boot0" /\ field = "hash" -> "boot0.hash:"
      [] stage = "boot0" /\ field = "aad_len" -> "boot0.aad_len:"
      [] stage = "boot0" /\ field = "aad" -> "boot0.aad:"
      [] stage = "boot1" /\ field = "sig" -> "boot1.sig:"
      [] stage = "boot1" /\ field = "hash" -> "boot1.hash:"
      [] stage = "boot1" /\ field = "aad_len" -> "boot1.aad_len:"
      [] stage = "boot1" /\ field = "aad" -> "boot1.aad:"
      [] stage = "loader" /\ field = "sig" -> "loader.sig:"
      [] stage = "loader" /\ field = "hash" -> "loader.hash:"
      [] stage = "loader" /\ field = "aad_len" -> "loader.aad_len:"
      [] stage = "loader" /\ field = "aad" -> "loader.aad:"

starts_with(line, prefix) == line # <<>> /\ Head(line) = prefix

\* str::strip_prefix: Some(rest) or None
strip_prefix(line, prefix) ==
    IF starts_with(line, prefix) THEN Some(Tail(line)) ELSE None

\* StageData::default()
DefaultStageData ==
    [sig |-> None, hash |-> None, key_slot |-> None, key_tag |-> None,
     aad_len |-> None, aad |-> None]

\* stages.entry(stage).or_default()
Entry(stages, stage) ==
    IF stage \in DOMAIN stages THEN stages[stage] ELSE DefaultStageData

Put(stages, stage, rec) ==
    [s \in (DOMAIN stages) \cup {stage} |-> IF s = stage THEN rec ELSE stages[s]]

\* parse_key_line: [kind |-> "none"], [kind |-> "some", slot, tag], or
\* [kind |-> "panic"] when the slice line[paren_start + 1..paren_end] has its
\* start beyond its end
parse_key_line(line, prefix) ==
    LET key_idx     == find(line, {"key "})
        after_key   == SubSeqFrom(line, key_idx + 1)
        slot_end    == find_not(after_key, DigitToks)
        slot        == parse_u32(SubSeq(after_key, 1, slot_end - 1))
        paren_start == find(line, {"("})
        paren_end   == find(line, {")"})
        NoMatch     == [kind |-> "none", slot |-> <<0, 0>>, tag |-> <<>>]
    IN  IF ~starts_with(line, prefix) THEN NoMatch
        ELSE IF key_idx = 0 THEN NoMatch
        ELSE IF slot_end = 0 THEN NoMatch
        ELSE IF slot = None THEN NoMatch
        ELSE IF paren_start = 0 THEN NoMatch
        ELSE IF paren_end = 0 THEN NoMatch
        ELSE IF paren_start + 1 > paren_end
             THEN [kind |-> "panic", slot |-> <<0, 0>>, tag |-> <<>>]
        ELSE [kind |-> "some", slot |-> slot[1],
              tag |-> SubSeq(line, paren_start + 1, paren_end - 1)]

\* faulty variant of SetSig: a later signature line extends the recorded value
\* instead of replacing it
SetSigAppend(stages, stage, rest) ==
    Put(stages, stage,
        [Entry(stages, stage) EXCEPT
            !.sig = Some((IF IsSome(@) THEN @[1] ELSE <<>>) \o trim(rest))])

\* the four assignments in the body of `for stage in &["boot0", "boot1", "loader"]`
SetSig(stages, stage, rest) ==
    Put(stages, stage, [Entry(stages, stage) EXCEPT !.sig = Some(trim(rest))])

SetHash(stages, stage, rest) ==
    Put(stages, stage, [Entry(stages, stage) EXCEPT !.hash = Some(trim(rest))])

SetAadLen(stages, stage, rest) ==
    LET len == parse_u32(trim(rest))
    IN  IF IsSome(len)
        THEN Put(stages, stage, [Entry(stages, stage) EXCEPT !.aad_len = len])
        ELSE stages

SetAad(stages, stage, rest) ==
    Put(stages, stage, [Entry(stages, stage) EXCEPT !.aad = Some(trim(rest))])

FieldStep(stages, line, stage) ==
    LET r1 == strip_prefix(line, FieldPrefix(stage, "sig"))
        s1 == IF IsSome(r1) THEN SetSig(stages, stage, r1[1]) ELSE stages
        r2 == strip_prefix(line, FieldPrefix(stage, "hash"))
        s2 == IF IsSome(r2) THEN SetHash(s1, stage, r2[1]) ELSE s1
        r3 == strip_prefix(line, FieldPrefix(stage, "aad_len"))
        s3 == IF IsSome(r3) THEN SetAadLen(s2, stage, r3[1]) ELSE s2
        r4 == strip_prefix(line, FieldPrefix(stage, "aad"))
    IN  IF IsSome(r4) THEN SetAad(s3, stage, r4[1]) ELSE s3

RECURSIVE FieldLoop(_, _, _)
FieldLoop(stages, line, names) ==
    IF names = <<>> THEN stages
    ELSE FieldLoop(FieldStep(stages, line, Head(names)), line, Tail(names))

\* faulty variant of KeyPrefixes: "Boot0:" and "Boot1:" write to each other's stage
KeyPrefixesSwapped ==
    << <<"Boot0:", "boot1">>, <<"Boot1:", "boot0">>, <<"Next stage:", "loader">> >>

\* the three key-annotation prefixes and the stage each one writes to
KeyPrefixes ==
    << <<"Boot0:", "boot0">>, <<"Boot1:", "boot1">>, <<"Next stage:", "loader">> >>

\* `if let Some(caps) = parse_key_line(line, prefix) { ... }` for each prefix
\* in turn; st is [panicked, stages]
RECURSIVE KeyLoop(_, _, _)
KeyLoop(st, line, prefixes) ==
    IF prefixes = <<>> \/ st.panicked THEN st
    ELSE LET caps  == parse_key_line(line, Head(prefixes)[1])
             stage == Head(prefixes)[2]
             next  ==
                 CASE caps.kind = "panic" -> [st EXCEPT !.panicked = TRUE]
                   [] caps.kind = "some" ->
                        [st EXCEPT !.stages =
                            Put(@, stage,
                                [Entry(@, stage) EXCEPT
                                    !.key_slot = Some(caps.slot),
                                    !.key_tag = Some(caps.tag)])]
                   [] OTHER -> st
         IN  KeyLoop(next, line, Tail(prefixes))

\* the body of `for line in input.lines()`
ParseLine(st, rawline) ==
    LET line == trim(rawline)
    IN  KeyLoop([st EXCEPT !.stages = FieldLoop(@, line, StageNames)],
                line, KeyPrefixes)

RECURSIVE ParseLines(_, _)
ParseLines(st, ls) ==
    IF ls = <<>> \/ st.panicked THEN st
    ELSE ParseLines(ParseLine(st, Head(ls)), Tail(ls))

EmptyMap == [s \in {} |-> DefaultStageData]

\* parse_audit_output: [panicked |-> FALSE, stages |-> the HashMap returned] or,
\* when parse_key_line panics, [panicked |-> TRUE, ...] (no value is returned)
parse_audit_output(text) ==
    LET st == ParseLines([panicked |-> FALSE, stages |-> EmptyMap], lines(text))
    IN  IF st.panicked THEN [panicked |-> TRUE, stages |-> EmptyMap] ELSE st

----------------------------------------------------------------------------
(* Hex decoding, the key registry and the signature scheme                 *)

\* number of hex digits a token stands for, -1 when it holds a non-hex character
HexNibbles(t) ==
    CASE t \in {"D1", "d1", "d2"} -> 128
      [] t \in {"sigph_dev_d1", "sigfd_dev_a1_d1", "sigph_beta_d1", "sig_none"} -> 128
      [] t \in {"pk_bao1", "pk_bao2", "pk_beta", "pk_developer", "pk_offcurve"} -> 64
      [] t = "a1" -> 4
      [] t \in DigitToks -> 1
      [] OTHER -> -1

RECURSIVE SumNibbles(_)
SumNibbles(s) == IF s = <<>> THEN 0 ELSE HexNibbles(Head(s)) + SumNibbles(Tail(s))

\* hex::decode: upper and lower case digits give the same bytes
hex_decode(s) ==
    IF (\E i \in 1..Len(s) : HexNibbles(s[i]) < 0) \/ SumNibbles(s) % 2 # 0
    THEN [ok |-> FALSE, bytes |-> <<>>, len |-> 0]
    ELSE [ok |-> TRUE, bytes |-> [i \in 1..Len(s) |-> Lower(s[i])],
          len |-> SumNibbles(s) \div 2]

eq_ignore_ascii_case(a, b) ==
    Len(a) = Len(b) /\ \A i \in 1..Len(a) : Lower(a[i]) = Lower(b[i])

PUBKEYS ==
    << <<"bao1", "pk_bao1">>, <<"bao2", "pk_bao2">>, <<"beta", "pk_beta">>,
       <<"developer", "pk_developer">>, <<"dev", "pk_developer">> >>

TAG_TO_KEY ==
    << <<"bao1", "bao1">>, <<"bao2", "bao2">>, <<"beta", "beta">>,
       <<"devl", "developer">>, <<"dev", "developer">> >>

\* first row of a two-column table whose first column matches, 0 when none does
Lookup(table, s) ==
    FirstOf({k \in 1..Len(table) : eq_ignore_ascii_case(s, <<table[k][1]>>)})

\* resolve_pubkey: [ok, bytes, err]
resolve_pubkey(inp) ==
    LET k == Lookup(PUBKEYS, inp)
        d == hex_decode(inp)
    IN  IF k # 0 THEN [ok |-> TRUE, bytes |-> hex_decode(<<PUBKEYS[k][2]>>).bytes, err |-> ""]
        ELSE IF ~d.ok THEN [ok |-> FALSE, bytes |-> <<>>, err |-> "Invalid hex"]
        ELSE IF d.len # 32
             THEN [ok |-> FALSE, bytes |-> <<>>, err |-> "Public key must be 32 bytes"]
        ELSE [ok |-> TRUE, bytes |-> d.bytes, err |-> ""]

\* identify_key: Some(first name registered for these bytes) or None
identify_key(pubkey_bytes) ==
    LET k == FirstOf({i \in 1..Len(PUBKEYS) :
                         hex_decode(<<PUBKEYS[i][2]>>).bytes = pubkey_bytes})
    IN  IF k = 0 THEN None ELSE Some(PUBKEYS[k][1])

\* tag_to_key_name: Some(name) or None
tag_to_key_name(tag) ==
    LET k == Lookup(TAG_TO_KEY, trim(tag))
    IN  IF k = 0 THEN None ELSE Some(TAG_TO_KEY[k][2])

\* VerifyingKey::from_bytes succeeds on the encodings of curve points
IsCurvePoint(bytes) ==
    bytes \in {<<"pk_bao1">>, <<"pk_bao2">>, <<"pk_beta">>, <<"pk_developer">>}

Sha256(bytes) == <<"sha256">> \o bytes

\* The signatures that exist: the key, the scheme ("ph": Ed25519ph over a
\* 64-byte prehash, "std": plain Ed25519) and the message each one signs.
Signatures ==
    { [sig |-> <<"sigph_dev_d1">>, key |-> <<"pk_developer">>, scheme |-> "ph",
       msg |-> <<"d1">>],
      [sig |-> <<"sigph_beta_d1">>, key |-> <<"pk_beta">>, scheme |-> "ph",
       msg |-> <<"d1">>],
      [sig |-> <<"sigfd_dev_a1_d1">>, key |-> <<"pk_developer">>, scheme |-> "std",
       msg |-> <<"a1", "sha256", "d1">>] }

\* verifying_key.verify(&msg, &signature)
verify(key, msg, sig) ==
    [sig |-> sig, key |-> key, scheme |-> "std", msg |-> msg] \in Signatures

\* verifying_key.verify_prehashed(PrecomputedHash { hash }, None, &signature)
verify_prehashed(key, hash, sig) ==
    [sig |-> sig, key |-> key, scheme |-> "ph", msg |-> hash] \in Signatures

----------------------------------------------------------------------------
(* Verification engine                                                     *)

\* faulty variant of AadBytes: without the `if !hex.is_empty()` guard
AadBytesNoEmptyTest(aad_hex) ==
    IF IsSome(aad_hex)
    THEN LET d == hex_decode(aad_hex[1])
         IN  [ok |-> d.ok, bytes |-> IF d.ok THEN Some(d.bytes) ELSE None]
    ELSE [ok |-> TRUE, bytes |-> None]

\* `match aad_hex { Some(hex) if !hex.is_empty() => Some(decode(hex)?), _ => None }`
\* [ok, bytes (an option)]
AadBytes(aad_hex) ==
    IF IsSome(aad_hex) /\ aad_hex[1] # <<>>
    THEN LET d == hex_decode(aad_hex[1])
         IN  [ok |-> d.ok, bytes |-> IF d.ok THEN Some(d.bytes) ELSE None]
    ELSE [ok |-> TRUE, bytes |-> None]

VerifyFailure(err) ==
    [ok |-> FALSE, err |-> err, mode |-> "", checked |-> FALSE, out |-> <<>>]

\* verify_single: [ok, err, mode, checked, out]; mode is "" when the call
\* returned before choosing one, checked tells whether verify / verify_prehashed
\* was called
verify_single(pubkey_hex, hash_hex, sig_hex, aad_hex, name) ==
    LET pk       == resolve_pubkey(pubkey_hex)
        hash     == hex_decode(hash_hex)
        sig      == hex_decode(sig_hex)
        aad      == AadBytes(aad_hex)
        is_fido2 == IsSome(aad.bytes)
        mode     == IF is_fido2 THEN "FIDO2" ELSE "Ed25519ph"
        key_name == identify_key(pk.bytes)
        info     == << <<"=== Verifying", name>>, <<"Mode:", mode>>,
                       <<"Public key:", IF IsSome(key_name) THEN key_name[1] ELSE "hex">>,
                       <<"Hash:">>, <<"Signature:">> >>
                    \o (IF is_fido2 THEN << <<"AAD:", "bytes">> >> ELSE <<>>)
        result   == IF is_fido2
                    THEN verify(pk.bytes, aad.bytes[1] \o Sha256(hash.bytes), sig.bytes)
                    ELSE verify_prehashed(pk.bytes, hash.bytes, sig.bytes)
    IN  IF ~pk.ok THEN VerifyFailure(pk.err)
        ELSE IF ~hash.ok THEN VerifyFailure("Invalid hash hex")
        ELSE IF hash.len # 64 THEN VerifyFailure("Hash must be 64 bytes")
        ELSE IF ~sig.ok THEN VerifyFailure("Invalid signature hex")
        ELSE IF sig.len # 64 THEN VerifyFailure("Signature must be 64 bytes")
        ELSE IF ~aad.ok THEN VerifyFailure("Invalid AAD hex")
        ELSE IF ~IsCurvePoint(pk.bytes)
             THEN [ok |-> FALSE, err |-> "Invalid public key", mode |-> mode,
                   checked |-> FALSE, out |-> info]
        ELSE IF result
             THEN [ok |-> TRUE, err |-> "", mode |-> mode, checked |-> TRUE,
                   out |-> Append(info, <<"PASSED">>)]
        ELSE [ok |-> FALSE, err |-> "verification failed", mode |-> mode,
              checked |-> TRUE, out |-> Append(info, <<"FAILED">>)]

\* the errors verify_single returns before it builds the key and the signature
DecodeErrors ==
    {"Invalid hex", "Public key must be 32 bytes", "Invalid hash hex",
     "Hash must be 64 bytes", "Invalid signature hex", "Signature must be 64 bytes",
     "Invalid AAD hex"}

----------------------------------------------------------------------------
(* Inputs                                                                  *)

MaxLines == 2

\* lines a free-form audit log may hold: well-formed ones and malformed ones
LineSet ==
    { <<"boot0.sig:", "sigph_dev_d1">>,
      <<"boot0.sig:", " ", "sig_none", " ">>,
      <<"boot0.hash:", "D1">>,
      <<" ", "loader.hash:", "d2">>,
      <<"boot1.aad:", "a1">>,
      <<"boot1.aad_len:", "2">>,
      <<"boot1.aad_len:", "4", "2", "9", "4", "9", "6", "7", "2", "9", "6">>,
      <<"Boot0:", " ", "key ", "2", "/true", " ", "(", "beta", ")", " ", "-> ok">>,
      <<"Boot0:", " ", "key ", "3", "/true", " ", "(", "dev", " ", ")">>,
      <<"Boot1:", " ", "key ", "0", " ", "(", "bao1", ")">>,
      <<"Boot1:", " ", "key ", "4", "2", "9", "4", "9", "6", "7", "2", "9", "6",
        "/true", " ", "(", "dev", ")">>,
      <<"Next stage:", " ", "key ", "1">>,
      <<"Next stage:", " ", "(", "dev", ")", " ", "key ", "/true">>,
      <<"Boot0:", " ", "key ", "1", " ", ")", "(">>,
      <<"junk">>,
      <<>> }

\* sequences of at most n lines of LineSet
RECURSIVE LineSeqs(_)
LineSeqs(n) ==
    IF n = 0 THEN {<<>>}
    ELSE LET shorter == LineSeqs(n - 1)
         IN  shorter \cup {Append(ls, l) : ls \in {x \in shorter : Len(x) = n - 1},
                                            l \in LineSet}

\* free-form texts: the lines joined by line feeds, with or without a final one
FreeTexts ==
    {join(ls) : ls \in LineSeqs(MaxLines)}
        \cup {join(ls) \o <<NL>> : ls \in LineSeqs(MaxLines)}

KeyPrefixOf(stage) ==
    CASE stage = "boot0" -> "Boot0:" [] stage = "boot1" -> "Boot1:"
      [] stage = "loader" -> "Next stage:"

KeyLine(stage, slot, tag) ==
    <<KeyPrefixOf(stage), " ", "key ", slot, "/true", " ", "(">> \o tag
        \o <<")", " ", "-> ok">>

\* what an audit log may say about one stage
Stanzas(stage) ==
    LET Sig(t)  == <<FieldPrefix(stage, "sig"), t>>
        Hash(t) == <<FieldPrefix(stage, "hash"), t>>
        Aad(v)  == <<FieldPrefix(stage, "aad")>> \o v
        Len_(t) == <<FieldPrefix(stage, "aad_len"), t>>
    IN  { <<>>,
          <<Sig("sigph_dev_d1")>>,
          <<Sig("sigph_dev_d1"), Hash("D1")>>,
          <<KeyLine(stage, "0", <<"dev", " ">>), Sig("sigph_dev_d1"), Hash("d1")>>,
          <<Sig("sigph_dev_d1"), Hash("d1"), KeyLine(stage, "3", <<"zzzz">>)>>,
          <<Sig("sigph_dev_d1"), Hash("junk")>>,
          <<Sig("sig_none"), Hash("d1")>>,
          <<Sig("sigfd_dev_a1_d1"), Hash("d1"), Len_("2"), Aad(<<"a1">>)>>,
          <<Sig("sigph_dev_d1"), Hash("d1"), Len_("5"), Aad(<<>>)>>,
          <<Sig("sigfd_dev_a1_d1"), Hash("d1"), Len_("2")>>,
          <<KeyLine(stage, "2", <<"beta">>)>>,
          <<KeyLine(stage, "2", <<"BETA">>), Sig("sigph_dev_d1"), Hash("d1")>>,
          <<Sig("sigph_dev_d1"), Hash("d1"),
            <<KeyPrefixOf(stage), " ", "key ", "3", " ", ")", "(">> >> }

\* audit logs: one stanza per stage, in boot order
StanzaTexts ==
    {join(a \o b \o c) : a \in Stanzas("boot0"), b \in Stanzas("boot1"),
                         c \in Stanzas("loader")}

NoFlags == [pubkey |-> None, hash |-> None, sig |-> None, aad |-> None, name |-> "all"]

\* command lines without the full --pubkey/--hash/--sig triple
BatchArgs ==
    {[NoFlags EXCEPT !.name = n] : n \in {"all", "boot0", "boot1", "loader", "stage9"}}
        \cup {[NoFlags EXCEPT !.pubkey = Some(<<"developer">>), !.aad = Some(<<"a1">>)]}

\* command lines with the full triple
ExplicitArgs ==
    [pubkey : {Some(<<k>>) : k \in {"DEVELOPER", "dev", "pk_developer", "pk_offcurve",
                                    "zzzz", "d1"}},
     hash   : {Some(<<h>>) : h \in {"D1", "d2", "junk", "a1"}},
     sig    : {Some(<<g>>) : g \in {"sigph_dev_d1", "sigfd_dev_a1_d1", "junk", "a1"}},
     aad    : {None, Some(<<>>), Some(<<"a1">>), Some(<<"junk">>), Some(<<"1">>)},
     name   : {"all", "boot1"}]

----------------------------------------------------------------------------
(* Driver                                                                  *)

IsExplicit(a) == IsSome(a.pubkey) /\ IsSome(a.hash) /\ IsSome(a.sig)

\* faulty variant of SigAndHash: a missing digest is taken as the empty string
SigAndHashLax(stage) ==
    IF IsSome(stage.sig)
    THEN Some(<<stage.sig[1], IF IsSome(stage.hash) THEN stage.hash[1] ELSE <<>> >>)
    ELSE None

\* `match (&stage.sig, &stage.hash) { (Some(s), Some(h)) => (s, h), _ => continue }`
\* Some(<<sig, hash>>) or None
SigAndHash(stage) ==
    IF IsSome(stage.sig) /\ IsSome(stage.hash)
    THEN Some(<<stage.sig[1], stage.hash[1]>>)
    ELSE None

\* faulty variant of StageKey: the slot is consulted before the tag
StageKeySlotFirst(stage) ==
    IF IsSome(stage.key_slot)
    THEN CASE stage.key_slot[1] = U32(0) -> [kind |-> "key", name |-> "bao1"]
           [] stage.key_slot[1] = U32(1) -> [kind |-> "key", name |-> "bao2"]
           [] stage.key_slot[1] = U32(2) -> [kind |-> "key", name |-> "beta"]
           [] stage.key_slot[1] = U32(3) -> [kind |-> "key", name |-> "developer"]
           [] OTHER -> [kind |-> "Unknown key slot", name |-> ""]
    ELSE IF IsSome(stage.key_tag)
    THEN LET key_name == tag_to_key_name(stage.key_tag[1])
         IN  IF IsSome(key_name) THEN [kind |-> "key", name |-> key_name[1]]
             ELSE [kind |-> "Unknown key tag", name |-> ""]
    ELSE [kind |-> "key", name |-> "developer"]

\* "Determine which key to use": [kind |-> "key", name] or the reason the
\* stage is left with `continue`
StageKey(stage) ==
    IF IsSome(stage.key_tag)
    THEN LET key_name == tag_to_key_name(stage.key_tag[1])
         IN  IF IsSome(key_name) THEN [kind |-> "key", name |-> key_name[1]]
             ELSE [kind |-> "Unknown key tag", name |-> ""]
    ELSE IF IsSome(stage.key_slot)
    THEN CASE stage.key_slot[1] = U32(0) -> [kind |-> "key", name |-> "bao1"]
           [] stage.key_slot[1] = U32(1) -> [kind |-> "key", name |-> "bao2"]
           [] stage.key_slot[1] = U32(2) -> [kind |-> "key", name |-> "beta"]
           [] stage.key_slot[1] = U32(3) -> [kind |-> "key", name |-> "developer"]
           [] OTHER -> [kind |-> "Unknown key slot", name |-> ""]
    ELSE [kind |-> "key", name |-> "developer"]

\* the record kept of one verify_single invocation
Call(pubkey, hash, sig, aad, name) ==
    LET r == verify_single(pubkey, hash, sig, aad, name)
    IN  [name |-> name, pubkey |-> pubkey, hash |-> hash, sig |-> sig, aad |-> aad,
         ok |-> r.ok, err |-> r.err, mode |-> r.mode, checked |-> r.checked,
         out |-> r.out]

\* faulty variant of StagesToVerify: the stages in reverse boot order
StagesToVerifyReversed(name) ==
    IF name = "all" THEN <<"loader", "boot1", "boot0">> ELSE <<name>>

\* `let stages_to_verify = if args.name == "all" { ... } else { vec![name] }`
StagesToVerify(name) == IF name = "all" THEN StageNames ELSE <<name>>

\* the "=== Summary ===" loop: one line per entry of `results`
SummaryLines(res) ==
    [i \in 1..Len(res) |-> <<res[i][1], IF res[i][2] THEN "VERIFIED" ELSE "FAILED">>]

AllPassed(res) == \A i \in 1..Len(res) : res[i][2]

Init ==
    /\ \/ args \in ExplicitArgs /\ stdin = <<>>
       \/ args \in BatchArgs /\ stdin \in StanzaTexts \cup FreeTexts
    /\ input = <<>>
    /\ parsed = None
    /\ parsed2 = None
    /\ todo = <<>>
    /\ results = <<>>
    /\ calls = <<>>
    /\ skipped = <<>>
    /\ out = <<>>
    /\ exit = -1
    /\ pc = "main"

\* main, explicit values: verify directly and exit
VerifyExplicit ==
    /\ pc = "main"
    /\ IsExplicit(args)
    /\ LET c == Call(args.pubkey[1], args.hash[1], args.sig[1], args.aad, args.name)
       IN  /\ calls' = Append(calls, c)
           /\ out' = out \o c.out \o (IF c.ok THEN <<>> ELSE << <<"Error:", c.err>> >>)
           /\ exit' = IF c.ok THEN 0 ELSE 1
    /\ pc' = "exited"
    /\ UNCHANGED <<args, stdin, input, parsed, parsed2, todo, results, skipped>>

\* main: read standard input, join its lines, leave when there is nothing
ReadStdin ==
    /\ pc = "main"
    /\ ~IsExplicit(args)
    /\ input' = join(lines(stdin))
    /\ IF input' = <<>>
       THEN /\ out' = Append(out, <<"No input provided.">>)
            /\ exit' = 1
            /\ pc' = "exited"
       ELSE /\ pc' = "parse"
            /\ UNCHANGED <<out, exit>>
    /\ UNCHANGED <<args, stdin, parsed, parsed2, todo, results, calls, skipped>>

\* main: parse the input, leave when no stage was found, else choose the
\* stages to verify; a panic inside the parser ends the process with status 101
ParseInput ==
    /\ pc = "parse"
    /\ LET r == parse_audit_output(input)
       IN  /\ parsed' = Some(r)
           /\ IF r.panicked
              THEN /\ exit' = 101
                   /\ pc' = "exited"
                   /\ out' = Append(out, <<"panicked">>)
                   /\ UNCHANGED todo
              ELSE IF DOMAIN r.stages = {}
              THEN /\ exit' = 1
                   /\ pc' = "exited"
                   /\ out' = Append(out, <<"No attestation data found in input.">>)
                   /\ UNCHANGED todo
              ELSE /\ todo' = StagesToVerify(args.name)
                   /\ pc' = "loop"
                   /\ out' = Append(out, <<"Found attestation data">>)
                   /\ UNCHANGED exit
    /\ UNCHANGED <<args, stdin, input, parsed2, results, calls, skipped>>

\* main: one iteration of `for stage_name in stages_to_verify`
VerifyStage ==
    /\ pc = "loop"
    /\ todo # <<>>
    /\ LET stage_name == Head(todo)
           stages     == parsed[1].stages
           stage      == stages[stage_name]
           key        == StageKey(stage)
           sh         == SigAndHash(stage)
           c          == Call(<<key.name>>, sh[1][2], sh[1][1], stage.aad, stage_name)
       IN  IF stage_name \notin DOMAIN stages
           THEN UNCHANGED <<results, calls, skipped, out>>
           ELSE IF sh = None
           THEN /\ out' = Append(out, <<"Incomplete data for", stage_name>>)
                /\ skipped' = Append(skipped, <<stage_name, "Incomplete data">>)
                /\ UNCHANGED <<results, calls>>
           ELSE IF key.kind # "key"
           THEN /\ out' = Append(out, <<key.kind, stage_name>>)
                /\ skipped' = Append(skipped, <<stage_name, key.kind>>)
                /\ UNCHANGED <<results, calls>>
           ELSE /\ calls' = Append(calls, c)
                /\ results' = Append(results, <<stage_name, c.ok>>)
                /\ out' = out \o c.out
                /\ UNCHANGED skipped
    /\ todo' = Tail(todo)
    /\ UNCHANGED <<args, stdin, input, parsed, parsed2, exit, pc>>

\* main: print the summary and exit
Summary ==
    /\ pc = "loop"
    /\ todo = <<>>
    /\ out' = out \o << <<"=== Summary ===">> >> \o SummaryLines(results)
    /\ exit' = IF AllPassed(results) THEN 0 ELSE 1
    /\ pc' = "exited"
    /\ UNCHANGED <<args, stdin, input, parsed, parsed2, todo, results, calls, skipped>>

Next == VerifyExplicit \/ ReadStdin \/ ParseInput \/ VerifyStage \/ Summary

Spec == Init /\ [][Next]_vars

----------------------------------------------------------------------------
(* The parser alone, applied to a text and to the text followed by itself  *)

InitParse ==
    /\ args = NoFlags
    /\ stdin = <<>>
    /\ input \in FreeTexts
    /\ parsed = None
    /\ parsed2 = None
    /\ todo = <<>>
    /\ results = <<>>
    /\ calls = <<>>
    /\ skipped = <<>>
    /\ out = <<>>
    /\ exit = -1
    /\ pc = "parse"

ParseOnce ==
    /\ parsed = None
    /\ parsed' = Some(parse_audit_output(input))
    /\ UNCHANGED <<args, stdin, input, parsed2, todo, results, calls, skipped, out, exit, pc>>

ParseTwice ==
    /\ parsed2 = None
    /\ parsed2' = Some(parse_audit_output(input \o input))
    /\ UNCHANGED <<args, stdin, input, parsed, todo, results, calls, skipped, out, exit, pc>>

NextParse == ParseOnce \/ ParseTwice

SpecParse == InitParse /\ [][NextParse]_vars

----------------------------------------------------------------------------
(* Properties                                                              *)

IsBatch == ~IsExplicit(args)

\* the parse result the batch driver works on, once there is one
HasStages == IsBatch /\ parsed # None /\ ~parsed[1].panicked

Stages == parsed[1].stages

\* stages the for loop has been through
Requested == IF args.name = "all" THEN <<"boot0", "boot1", "loader">> ELSE <<args.name>>

Visited == SubSeq(Requested, 1, Len(Requested) - Len(todo))

InLoop == HasStages /\ (pc = "loop" \/ (pc = "exited" /\ DOMAIN Stages # {}))

SeqRange(q) == {q[i] : i \in 1..Len(q)}

CallsFor(s) == {i \in 1..Len(calls) : calls[i].name = s}

HasSigAndHash(rec) == rec.sig # None /\ rec.hash # None

\* the precedence the driver is to follow: tag, then slot, then developer
TagKey(tag) ==
    LET t == trim(tag)
        l == IF Len(t) = 1 THEN Lower(t[1]) ELSE ""
    IN  CASE l \in {"bao1", "bao2", "beta"} -> l
          [] l \in {"devl", "dev"} -> "developer"
          [] OTHER -> "?"

SlotKey(slot) ==
    CASE slot = <<0, 0>> -> "bao1" [] slot = <<0, 1>> -> "bao2"
      [] slot = <<0, 2>> -> "beta" [] slot = <<0, 3>> -> "developer"
      [] OTHER -> "?"

ExpectedKey(rec) ==
    IF rec.key_tag # None THEN TagKey(rec.key_tag[1])
    ELSE IF rec.key_slot # None THEN SlotKey(rec.key_slot[1])
    ELSE "developer"

Eligible(s) ==
    s \in DOMAIN Stages /\ HasSigAndHash(Stages[s]) /\ ExpectedKey(Stages[s]) # "?"

PastDecoding(c) == c.err \notin DecodeErrors

AadNonEmpty(c) == c.aad # None /\ c.aad[1] # <<>>

\* the signature check the claim assigns to a call: plain Ed25519 over
\* aad || SHA256(digest) when the aad is present and non-empty, Ed25519ph over
\* the digest otherwise
SignedAsClaimed(c) ==
    \E g \in Signatures :
        /\ g.sig = hex_decode(c.sig).bytes
        /\ g.key = resolve_pubkey(c.pubkey).bytes
        /\ IF AadNonEmpty(c)
           THEN /\ g.scheme = "std"
                /\ g.msg = hex_decode(c.aad[1]).bytes \o <<"sha256">>
                                \o hex_decode(c.hash).bytes
           ELSE g.scheme = "ph" /\ g.msg = hex_decode(c.hash).bytes

\* C1: every verify_single call that gets past decoding runs in FIDO2 mode
\* (plain verify over aad || SHA256(digest)) exactly when its auxiliary-data
\* argument is present and non-empty, and in Ed25519ph mode (verify_prehashed
\* over the digest) otherwise; the mode is printed, and aad_len plays no part.
C1_ModeIffAadNonEmpty ==
    \A i \in 1..Len(calls) :
        PastDecoding(calls[i]) =>
            /\ calls[i].mode = (IF AadNonEmpty(calls[i]) THEN "FIDO2" ELSE "Ed25519ph")
            /\ <<"Mode:", calls[i].mode>> \in SeqRange(calls[i].out)
            /\ calls[i].checked => (calls[i].ok <=> SignedAsClaimed(calls[i]))

\* C1 witness: one batch run with a FIDO2 call, an Ed25519ph call whose aad
\* is present but empty, and an Ed25519ph call for a stage that has an
\* aad_len but no aad.
C1_Witness ==
    /\ HasStages
    /\ \E i, j, k \in 1..Len(calls) :
        /\ calls[i].mode = "FIDO2" /\ calls[i].checked
        /\ calls[j].aad = Some(<<>>) /\ calls[j].mode = "Ed25519ph" /\ calls[j].checked
        /\ calls[k].aad = None /\ calls[k].mode = "Ed25519ph"
        /\ Stages[calls[k].name].aad_len # None

\* C2: in batch mode every complete stage the loop has been through was
\* verified with the key the precedence tag > slot > developer gives, or, when
\* its tag or slot is not recognised, was skipped without a verification call;
\* the process only exits after the loop has been through every stage.
C2_KeyPrecedence ==
    InLoop =>
        /\ \A s \in SeqRange(Visited) :
              (s \in DOMAIN Stages /\ HasSigAndHash(Stages[s])) =>
                  IF ExpectedKey(Stages[s]) = "?"
                  THEN CallsFor(s) = {} /\ \E k \in 1..Len(skipped) : skipped[k][1] = s
                  ELSE \E i \in CallsFor(s) :
                          /\ CallsFor(s) = {i}
                          /\ calls[i].pubkey = <<ExpectedKey(Stages[s])>>
        /\ pc = "exited" => todo = <<>>

\* C2 witness: boot0 has an unrecognised tag and is skipped, boot1 carries
\* slot 0 with tag "dev " and is verified with the developer key, loader has no
\* key information and is verified with the developer key.
C2_Witness ==
    /\ InLoop /\ pc = "exited" /\ args.name = "all"
    /\ Eligible("boot1") /\ Eligible("loader")
    /\ "boot0" \in DOMAIN Stages /\ HasSigAndHash(Stages["boot0"])
    /\ ExpectedKey(Stages["boot0"]) = "?" /\ CallsFor("boot0") = {}
    /\ Stages["boot1"].key_slot = Some(<<0, 0>>)
    /\ Stages["boot1"].key_tag = Some(<<"dev", " ">>)
    /\ Stages["loader"].key_tag = None
    /\ \E i, j \in 1..Len(calls) :
        /\ calls[i].name = "boot1" /\ calls[i].pubkey = <<"developer">>
        /\ calls[j].name = "loader" /\ calls[j].pubkey = <<"developer">>

\* C3: a batch run exits with status 0 only if every requested stage that is
\* present and complete was verified and passed.
C3_ExitZeroOnlyIfAllAttemptedPassed ==
    (HasStages /\ pc = "exited" /\ exit = 0) =>
        \A s \in SeqRange(Requested) :
            (s \in DOMAIN Stages /\ HasSigAndHash(Stages[s])) =>
                \E i \in CallsFor(s) : calls[i].ok

\* C4: a batch run whose input is empty, or whose parse result holds no
\* complete record, ends with a non-zero status and verifies nothing.
C4_NoUsableInputFails ==
    (IsBatch /\ pc = "exited"
        /\ \/ input = <<>>
           \/ parsed # None /\ \A s \in DOMAIN Stages : ~HasSigAndHash(Stages[s]))
    => (exit # 0 /\ calls = <<>>)

\* C5: parse_audit_output returns a mapping for every text; it never panics.
C5_ParserNeverPanics ==
    /\ parsed # None => ~parsed[1].panicked
    /\ parsed2 # None => ~parsed2[1].panicked

Fields == {"sig", "hash", "aad_len", "aad"}

TextLines == lines(input)

HasFieldLine(s) ==
    \E i \in 1..Len(TextLines), f \in Fields :
        starts_with(trim(TextLines[i]), FieldPrefix(s, f))

HasKeyLine(s) ==
    \E i \in 1..Len(TextLines) :
        parse_key_line(trim(TextLines[i]), KeyPrefixOf(s)).kind = "some"

Returned == pc = "parse" /\ parsed # None /\ ~parsed[1].panicked

\* C6 as stated: the mapping returned holds only stages for which the text
\* has a field line.
C6_OnlyStagesWithFieldLine ==
    Returned => \A s \in DOMAIN Stages : HasFieldLine(s)

\* C6 amended: the mapping returned holds only stages for which the text has
\* a field line or a key-annotation line from which slot and tag were
\* extracted; a stage with such a key-annotation line is in the mapping with
\* its slot and tag (and nothing else when it has no field line); a stage with
\* neither kind of line is missing.
C6_OnlyStagesWithFieldOrKeyLine ==
    Returned =>
        /\ DOMAIN Stages \subseteq StageSet
        /\ \A s \in DOMAIN Stages : HasFieldLine(s) \/ HasKeyLine(s)
        /\ \A s \in StageSet :
              HasKeyLine(s) =>
                  /\ s \in DOMAIN Stages
                  /\ Stages[s].key_slot # None /\ Stages[s].key_tag # None
                  /\ ~HasFieldLine(s) =>
                        [Stages[s] EXCEPT !.key_slot = None, !.key_tag = None]
                            = DefaultStageData

\* C6 witness: a stage that has only a key-annotation line is in the mapping
\* with its slot and tag, and a stage without any line is missing.
C6_Witness ==
    /\ Returned
    /\ \E s \in DOMAIN Stages :
        /\ ~HasFieldLine(s) /\ HasKeyLine(s)
        /\ Stages[s].key_tag # None /\ Stages[s].sig = None
    /\ \E s \in StageSet : s \notin DOMAIN Stages

BothParsed == pc = "parse" /\ parsed # None /\ parsed2 # None

\* C7 as stated: parsing a text and parsing the text followed immediately by
\* itself give the same mapping.
C7_Idempotent ==
    BothParsed => parsed = parsed2

WholeLines(text) == text = <<>> \/ text[Len(text)] = NL

\* C7 amended: for a text that is empty or ends with a line feed, parsing the
\* text and parsing the text followed by itself end the same way: both panic,
\* or both return the same stages with the same fields.
C7_IdempotentOnWholeLines ==
    (BothParsed /\ WholeLines(input)) => parsed = parsed2

\* C7 witness: a text of whole lines that sets one field twice, parsed both
\* ways, with a stage in the result.
C7_Witness ==
    /\ BothParsed /\ WholeLines(input) /\ ~parsed[1].panicked
    /\ input = <<"boot0.sig:", "sigph_dev_d1", NL, "boot0.sig:", " ", "sig_none", " ", NL>>
    /\ parsed2[1].stages["boot0"].sig = Some(<<"sig_none">>)

\* what the batch driver reports for its i-th verification: the recorded
\* result and the status of the summary line
Reported(i) == <<results[i][2], out[Len(out) - Len(results) + i][2]>>

\* C8: a decode or key-resolution error stops verify_single before the
\* signature check, and the batch driver never reports such an error the way
\* it reports a signature mismatch.
C8_DecodeErrorsDistinguished ==
    /\ \A i \in 1..Len(calls) : calls[i].err \in DecodeErrors => ~calls[i].checked
    /\ (InLoop /\ pc = "exited") =>
          \A i, j \in 1..Len(calls) :
              (calls[i].err \in DecodeErrors /\ calls[j].err = "verification failed")
                  => Reported(i) # Reported(j)

\* C9: in batch mode verify_single is called for a stage only when its
\* signature and its digest are both recorded; a visited stage that lacks
\* either is reported incomplete and is not verified.
C9_IncompleteNeverVerified ==
    InLoop =>
        /\ \A i \in 1..Len(calls) :
              /\ calls[i].name \in DOMAIN Stages
              /\ Stages[calls[i].name].sig = Some(calls[i].sig)
              /\ Stages[calls[i].name].hash = Some(calls[i].hash)
        /\ \A s \in SeqRange(Visited) :
              (s \in DOMAIN Stages /\ ~HasSigAndHash(Stages[s])) =>
                  /\ CallsFor(s) = {}
                  /\ <<"Incomplete data for", s>> \in SeqRange(out)

\* C9 witness: a stage with a signature, a tag and a slot but no digest was
\* visited and reported incomplete, and another stage was verified.
C9_Witness ==
    /\ InLoop /\ pc = "exited"
    /\ \E s \in SeqRange(Visited) :
        /\ s \in DOMAIN Stages
        /\ Stages[s].sig # None /\ Stages[s].hash = None
        /\ <<"Incomplete data for", s>> \in SeqRange(out)
    /\ \E s \in SeqRange(Visited) :
        /\ s \in DOMAIN Stages
        /\ Stages[s].sig = None /\ Stages[s].key_tag # None
        /\ <<"Incomplete data for", s>> \in SeqRange(out)
    /\ calls # <<>>

CallNames == [i \in 1..Len(calls) |-> calls[i].name]

SummaryNames ==
    [i \in 1..Len(results) |-> out[Len(out) - Len(results) + i][1]]

\* C10: with the label "all", at every point of the loop the stages verified
\* so far are the eligible ones (present, complete, key resolvable) among the
\* stages visited so far, once each and in the order boot0, boot1, loader; at
\* exit the summary lists them in that order.
C10_VerifiedInOrder ==
    (InLoop /\ args.name = "all") =>
        /\ Visited = SubSeq(<<"boot0", "boot1", "loader">>, 1, 3 - Len(todo))
        /\ CallNames = SelectSeq(Visited, Eligible)
        /\ [i \in 1..Len(results) |-> results[i][1]] = CallNames
        /\ pc = "exited" => (todo = <<>> /\ SummaryNames = CallNames)

\* C10 witness: boot0 fails verification, boot1 is present but not eligible,
\* and loader is still verified, after boot0.
C10_Witness ==
    /\ InLoop /\ args.name = "all" /\ pc = "exited"
    /\ "boot1" \in DOMAIN Stages /\ ~Eligible("boot1")
    /\ Len(calls) = 2
    /\ calls[1].name = "boot0" /\ ~calls[1].ok
    /\ calls[2].name = "loader" /\ calls[2].ok

=============================================================================
